---- MODULE Spec2Model ----
(***************************************************************************)
(* A model of the webhook receiver: the credential store, the project      *)
(* directory, the job catalog, the three middleware gates of POST /webhook *)
(* and the job runner.                                                     *)
(*                                                                         *)
(* JavaScript strings are sequences of one-character strings, so that      *)
(* trim, startsWith, replace, split and path resolution are computed the   *)
(* way the code computes them.  undefined and null are the one-element     *)
(* sequences <<"undefined">> and <<"null">>, which are no strings of       *)
(* characters.                                                             *)
(***************************************************************************)
EXTENDS Integers, Sequences, FiniteSets, TLC

VARIABLES
  authorizedKeys,   \* middleware/auth.js: let authorizedKeys
  keysFile,         \* the authorized-keys file on disk (FileMissing or its text)
  clientProjects,   \* utils/projectManager.js: clientProjects.clients
  clientsFile,      \* the clients of config/client_projects.json on disk
  files,            \* the script files that exist on disk (absolute paths)
  reqs,             \* the request contexts (req and res of each request)
  running,          \* the request whose synchronous middleware chain is executing, or 0
  call              \* the last direct call of a utility function and its result

vars == <<authorizedKeys, keysFile, clientProjects, clientsFile, files, reqs, running, call>>

----------------------------------------------------------------------------
(* JavaScript values and string primitives                                 *)

undefined == <<"undefined">>
null == <<"null">>

\* !v for the values of the model: undefined, null and the empty string
Falsy(v) == v = undefined \/ v = null \/ v = <<>>
Truthy(v) == ~Falsy(v)

\* a || b
Or(a, b) == IF Truthy(a) THEN a ELSE b

\* String.prototype.startsWith
StartsWith(s, p) == Len(p) <= Len(s) /\ SubSeq(s, 1, Len(p)) = p

\* String.prototype.endsWith
EndsWith(s, p) == Len(p) <= Len(s) /\ SubSeq(s, Len(s) - Len(p) + 1, Len(s)) = p

\* String.prototype.indexOf, 1-based; 0 when p does not occur in s
IndexOf(s, p) ==
  LET hits == {i \in 1..(Len(s) - Len(p) + 1) : SubSeq(s, i, i + Len(p) - 1) = p}
  IN IF hits = {} THEN 0 ELSE CHOOSE i \in hits : \A j \in hits : i <= j

\* String.prototype.includes
Includes(s, p) == IndexOf(s, p) # 0

\* String.prototype.replace(p, r) with a string pattern: the first occurrence only
Replace(s, p, r) ==
  LET i == IndexOf(s, p)
  IN IF i = 0 THEN s
     ELSE SubSeq(s, 1, i - 1) \o r \o SubSeq(s, i + Len(p), Len(s))

WhiteSpace == {" ", "\t", "\r", "\n"}

RECURSIVE TrimStart(_)
TrimStart(s) ==
  IF s # <<>> /\ Head(s) \in WhiteSpace THEN TrimStart(Tail(s)) ELSE s

RECURSIVE TrimEnd(_)
TrimEnd(s) ==
  IF s # <<>> /\ s[Len(s)] \in WhiteSpace THEN TrimEnd(SubSeq(s, 1, Len(s) - 1)) ELSE s

\* String.prototype.trim
Trim(s) == TrimEnd(TrimStart(s))

\* String.prototype.split(sep) for a one-character separator
RECURSIVE Split(_, _)
Split(s, sep) ==
  LET i == IndexOf(s, <<sep>>)
  IN IF i = 0 THEN <<s>>
     ELSE <<SubSeq(s, 1, i - 1)>> \o Split(SubSeq(s, i + 1, Len(s)), sep)

\* Array.prototype.join(sep)
RECURSIVE Join(_, _)
Join(parts, sep) ==
  IF parts = <<>> THEN <<>>
  ELSE IF Len(parts) = 1 THEN parts[1]
  ELSE parts[1] \o sep \o Join(Tail(parts), sep)

\* Array.prototype.filter(x => x.length > 0)
RECURSIVE DropEmpty(_)
DropEmpty(s) ==
  IF s = <<>> THEN <<>>
  ELSE (IF Head(s) # <<>> THEN <<Head(s)>> ELSE <<>>) \o DropEmpty(Tail(s))

Range(s) == {s[i] : i \in DOMAIN s}

----------------------------------------------------------------------------
(* node's path module, POSIX flavour                                       *)

Sep == <<"/">>
Dot == <<".">>
DotDot == <<".", ".">>

\* the components left after '.', '' and '..' are resolved, for an absolute path
RECURSIVE NormalizeParts(_, _)
NormalizeParts(parts, acc) ==
  IF parts = <<>> THEN acc
  ELSE LET c == Head(parts)
       IN IF c = <<>> \/ c = Dot THEN NormalizeParts(Tail(parts), acc)
          ELSE IF c = DotDot
               THEN NormalizeParts(Tail(parts),
                      IF acc = <<>> THEN acc ELSE SubSeq(acc, 1, Len(acc) - 1))
               ELSE NormalizeParts(Tail(parts), Append(acc, c))

\* path.resolve of an absolute path: normalized, no trailing separator
PathResolve(p) ==
  LET parts == NormalizeParts(Split(p, "/"), <<>>)
  IN Sep \o Join(parts, Sep)

\* path.join: the non-empty segments joined by '/', then normalized
\* (its result is used only through path.resolve and path.dirname)
PathJoin(segments) ==
  Join(DropEmpty(segments), Sep)

\* path.dirname of a resolved path
PathDirname(p) ==
  LET parts == NormalizeParts(Split(p, "/"), <<>>)
  IN IF Len(parts) <= 1 THEN Sep
     ELSE Sep \o Join(SubSeq(parts, 1, Len(parts) - 1), Sep)

----------------------------------------------------------------------------
(* utils/validators.js                                                     *)

\* constants.js SECURITY.INVALID_PATH_CHARS: '..', '/', '\\'
INVALID_PATH_CHARS == {<<".", ".">>, <<"/">>, <<"\\">>}

SafeNameChars ==
  {"a","b","c","d","e","f","g","h","i","j","k","l","m","n","o","p","q","r","s",
   "t","u","v","w","x","y","z",
   "A","B","C","D","E","F","G","H","I","J","K","L","M","N","O","P","Q","R","S",
   "T","U","V","W","X","Y","Z",
   "0","1","2","3","4","5","6","7","8","9","_","-"}

\* /^[a-zA-Z0-9_-]+$/.test(str)
MatchesValidPattern(str) == str # <<>> /\ \A i \in DOMAIN str : str[i] \in SafeNameChars

containsInvalidPathChars(str) ==
  IF Falsy(str) THEN TRUE
  ELSE \E ch \in INVALID_PATH_CHARS : Includes(str, ch)

isValidProjectName(projectName) ==
  IF Falsy(projectName) THEN FALSE
  ELSE IF containsInvalidPathChars(projectName) THEN FALSE
  ELSE IF StartsWith(projectName, Dot) THEN FALSE
  ELSE MatchesValidPattern(projectName)

isValidJobName(jobName) ==
  IF Falsy(jobName) THEN FALSE
  ELSE IF containsInvalidPathChars(jobName) THEN FALSE
  ELSE IF StartsWith(jobName, Dot) THEN FALSE
  ELSE MatchesValidPattern(jobName)

\* sanitizePath(basePath, ...segments): the resolved path, or null
sanitizePath(basePath, segments) ==
  LET fullPath == PathJoin(<<basePath>> \o segments)
      resolvedPath == PathResolve(fullPath)
      resolvedBase == PathResolve(basePath)
  IN IF ~StartsWith(resolvedPath, resolvedBase) THEN null ELSE resolvedPath

----------------------------------------------------------------------------
(* The jobs tree on disk                                                   *)

\* path.join(__dirname, '..', PATHS.JOBS_DIR): here /w/j
JOBS_DIR == <<"/", "w", "/", "j">>
\* a directory beside the jobs root whose name has the root's name as a prefix
SIBLING_DIR == <<"/", "w", "/", "j", "2">>

ShExt == <<".", "s", "h">>

ProjA == <<"p">>
ProjB == <<"q">>
JobDeploy == <<"d">>
JobRollback == <<"r">>
JobNone == <<"n">>

ScriptAt(dir, project, job) == dir \o Sep \o project \o Sep \o job \o ShExt

\* the scripts that are always there
BaseFiles ==
  { ScriptAt(JOBS_DIR, ProjB, JobDeploy),
    ScriptAt(JOBS_DIR, ProjB, JobRollback),
    ScriptAt(SIBLING_DIR, ProjA, JobDeploy) }

\* the script an operator deploys and withdraws while the server runs
VolatileFile == ScriptAt(JOBS_DIR, ProjA, JobDeploy)

\* fs.existsSync: a file, or a directory that holds one
existsSync(p) ==
  p \in files \/ \E f \in files : StartsWith(f, IF p = Sep THEN Sep ELSE p \o Sep)

\* fs.readdirSync(dir): the names of the immediate entries of dir
readdirSync(dir) ==
  { Head(Split(SubSeq(f, Len(dir) + 2, Len(f)), "/")) :
      f \in {g \in files : StartsWith(g, dir \o Sep)} }

----------------------------------------------------------------------------
(* utils/projectManager.js: the job catalog                                *)

getProjectJobs(projectName) ==
  IF Falsy(projectName) THEN {}
  ELSE IF ~isValidProjectName(projectName) THEN {}
  ELSE LET projectDir == sanitizePath(JOBS_DIR, <<projectName>>)
       IN IF projectDir = null \/ ~existsSync(projectDir) THEN {}
          ELSE { Replace(file, ShExt, <<>>) :
                   file \in {f \in readdirSync(projectDir) : EndsWith(f, ShExt)} }

\* the paths getProjectJobs hands to fs.existsSync / fs.readdirSync
getProjectJobsTouched(projectName) ==
  IF Falsy(projectName) THEN {}
  ELSE IF ~isValidProjectName(projectName) THEN {}
  ELSE LET projectDir == sanitizePath(JOBS_DIR, <<projectName>>)
       IN IF projectDir = null THEN {} ELSE {projectDir}

\* the paths jobExists hands to fs.existsSync
jobExistsTouched(projectName, jobName) ==
  IF Falsy(projectName) \/ Falsy(jobName) THEN {}
  ELSE IF ~isValidProjectName(projectName) \/ ~isValidJobName(jobName) THEN {}
  ELSE LET jobPath == sanitizePath(JOBS_DIR, <<projectName, jobName \o ShExt>>)
       IN IF jobPath = null THEN {} ELSE {jobPath}

\* jobExists without the validation of the two names
jobExists_NoValidation(projectName, jobName) ==
  IF Falsy(projectName) \/ Falsy(jobName) THEN FALSE
  ELSE LET jobPath == sanitizePath(JOBS_DIR, <<projectName, jobName \o ShExt>>)
       IN IF jobPath = null THEN FALSE ELSE existsSync(jobPath)

jobExists(projectName, jobName) ==
  IF Falsy(projectName) \/ Falsy(jobName) THEN FALSE
  ELSE IF ~isValidProjectName(projectName) \/ ~isValidJobName(jobName) THEN FALSE
  ELSE LET jobPath == sanitizePath(JOBS_DIR, <<projectName, jobName \o ShExt>>)
       IN IF jobPath = null THEN FALSE ELSE existsSync(jobPath)

\* utils/jobExecutor.js
jobScriptExists(projectName, jobName) ==
  IF Falsy(projectName) \/ Falsy(jobName) THEN FALSE
  ELSE LET jobPath == sanitizePath(JOBS_DIR, <<projectName, jobName \o ShExt>>)
       IN IF jobPath = null THEN FALSE ELSE existsSync(jobPath)

----------------------------------------------------------------------------
(* utils/keyManager.js: the credential store                               *)

\* the authorized-keys file does not exist
FileMissing == <<"ENOENT">>
\* a keys file that exists but whose read fails: fs.readFileSync throws
FileUnreadable == <<"EACCES">>

RECURSIVE TrimAll(_)
TrimAll(lines) ==
  IF lines = <<>> THEN <<>> ELSE <<Trim(Head(lines))>> \o TrimAll(Tail(lines))

RECURSIVE DropEmptyAndComments(_)
DropEmptyAndComments(lines) ==
  IF lines = <<>> THEN <<>>
  ELSE (IF Truthy(Head(lines)) /\ ~StartsWith(Head(lines), <<"#">>)
        THEN <<Head(lines)>> ELSE <<>>) \o DropEmptyAndComments(Tail(lines))

loadAuthorizedKeys(file) ==
  IF file = FileMissing THEN <<>>
  ELSE DropEmptyAndComments(TrimAll(Split(file, "\n")))

\* loadAuthorizedKeys throws exactly when readFileSync does
loadAuthorizedKeysThrows(file) == file = FileUnreadable

verifyToken_Prefix(token, keys) ==
  IF Falsy(token) THEN FALSE
  ELSE LET normalizedToken == Trim(token)
       IN \E i \in DOMAIN keys : StartsWith(Trim(keys[i]), normalizedToken)

verifyToken(token, keys) ==
  IF Falsy(token) THEN FALSE
  ELSE LET normalizedToken == Trim(token)
       IN \E i \in DOMAIN keys : Trim(keys[i]) = normalizedToken

reloadAuthorizedKeys_KeepOnError ==
  IF loadAuthorizedKeysThrows(keysFile) THEN authorizedKeys
  ELSE loadAuthorizedKeys(keysFile)

\* middleware/auth.js reloadAuthorizedKeys: the new value of authorizedKeys;
\* the catch block assigns the empty list
reloadAuthorizedKeys ==
  IF loadAuthorizedKeysThrows(keysFile) THEN <<>>
  ELSE loadAuthorizedKeys(keysFile)

----------------------------------------------------------------------------
(* utils/projectManager.js: the project directory                          *)

\* a property name every plain object inherits from Object.prototype (as
\* constructor, toString, hasOwnProperty are)
ValueOf == <<"v", "a", "l", "u", "e", "O", "f">>
ObjectPrototypeKeys == {ValueOf}

\* whether clients[key] is truthy: an own entry, or an inherited function
HasTruthy(clients, key) == key \in DOMAIN clients \/ key \in ObjectPrototypeKeys

\* clients[key] = entry
SetEntry(clients, key, entry) ==
  [k \in DOMAIN clients \cup {key} |-> IF k = key THEN entry ELSE clients[k]]

\* delete clients[key]
DeleteEntry(clients, key) == [k \in DOMAIN clients \ {key} |-> clients[k]]

\* assignClientToProject up to its write: the new clientProjects.clients
assignClientToProject(clientKey, projectName, description) ==
  SetEntry(clientProjects, Trim(clientKey),
           [project |-> projectName, description |-> description])

\* removeClientAssignment up to its write: the new clientProjects.clients and
\* whether an entry was deleted
removeClientAssignment(clientKey) ==
  LET normalizedKey == Trim(clientKey)
  IN IF HasTruthy(clientProjects, normalizedKey)
     THEN [clients |-> DeleteEntry(clientProjects, normalizedKey), removed |-> TRUE]
     ELSE [clients |-> clientProjects, removed |-> FALSE]

\* loadClientProjects: the clients of the document on disk
loadClientProjects == clientsFile

getClientProject(clientKey) ==
  IF Falsy(clientKey) THEN null
  ELSE LET normalizedKey == Trim(clientKey)
       IN IF normalizedKey \in DOMAIN clientProjects
          THEN clientProjects[normalizedKey].project
          ELSE IF HasTruthy(clientProjects, normalizedKey)
          THEN undefined   \* the project property of an inherited function
          ELSE null

----------------------------------------------------------------------------
(* utils/requestHelpers.js                                                 *)

\* getParam reading the query before the body
getParam_QueryFirst(bodyValue, queryValue) ==
  IF queryValue # undefined /\ queryValue # null /\ queryValue # <<>> THEN queryValue
  ELSE IF bodyValue # undefined /\ bodyValue # null /\ bodyValue # <<>> THEN bodyValue
  ELSE undefined

\* getParam(req, name, ['body', 'query']) for name = token, project, job
getParam(bodyValue, queryValue) ==
  IF bodyValue # undefined /\ bodyValue # null /\ bodyValue # <<>> THEN bodyValue
  ELSE IF queryValue # undefined /\ queryValue # null /\ queryValue # <<>> THEN queryValue
  ELSE undefined

getBodyOrQuery(bodyValue, queryValue) == getParam(bodyValue, queryValue)

BearerPrefix == <<"B", "e", "a", "r", "e", "r", " ">>

getToken(q) ==
  LET token == getParam(q.bodyToken, q.queryToken)
  IN IF Truthy(token) THEN token
     ELSE IF Truthy(q.xToken) THEN q.xToken
     ELSE IF Truthy(q.authorization) /\ StartsWith(q.authorization, BearerPrefix)
          THEN Replace(q.authorization, BearerPrefix, <<>>)
          ELSE undefined

----------------------------------------------------------------------------
(* Request contexts and responses                                          *)

\* the number of request contexts that can be alive in one run
MaxReq == 2

\* the number of requests that go through the whole chain, from authentication
\* on, and the number of direct calls of the runner, in one run
MaxServed == 1

ReqIds == 1..MaxReq

\* the exit code of a process ended by a signal (null in node)
NoExitCode == -1

\* the exit code node reports on 'close' after a failed spawn (a negative errno)
SpawnErrno == -2

\* an object without properties
EmptyEnv == [k \in {} |-> <<>>]

\* {...a, ...b}
Merge(a, b) ==
  [k \in DOMAIN a \cup DOMAIN b |-> IF k \in DOMAIN b THEN b[k] ELSE a[k]]

\* the options argument of executeJob: env, onOutput and onComplete may be
\* absent
NoOptions == [hasEnv |-> FALSE, env |-> EmptyEnv, onOutput |-> FALSE,
              onComplete |-> FALSE]

\* the value a promise is settled with; fields are the own properties it carries
NoValue ==
  [kind |-> "none", message |-> "", fields |-> {},
   projectName |-> undefined, jobName |-> undefined,
   exitCode |-> NoExitCode, success |-> FALSE,
   stdout |-> undefined, stderr |-> undefined, originalError |-> undefined]

NoJob == [state |-> "none", projectName |-> undefined, jobName |-> undefined,
          script |-> undefined, cwd |-> undefined,
          exitCode |-> NoExitCode, promise |-> "none", errored |-> FALSE,
          env |-> EmptyEnv, onOutput |-> FALSE,
          onComplete |-> FALSE, completions |-> <<>>,
          stdout |-> <<>>, stderr |-> <<>>, value |-> NoValue]

\* a request that has not arrived: req.clientKey, req.project and req.jobName
\* are undefined until a middleware attaches them
IdleReq ==
  [pc |-> "idle", route |-> "none",
   bodyToken |-> undefined, queryToken |-> undefined,
   xToken |-> undefined, authorization |-> undefined,
   bodyProject |-> undefined, queryProject |-> undefined,
   bodyJob |-> undefined, queryJob |-> undefined,
   xProject |-> undefined, xJob |-> undefined,
   clientKey |-> undefined, project |-> undefined, jobName |-> undefined,
   bodyEnv |-> EmptyEnv, options |-> NoOptions,
   res |-> <<>>, trace |-> <<>>, log |-> <<>>, events |-> <<>>, job |-> NoJob,
   tokenChecked |-> undefined, passed |-> {}, fault |-> "none",
   gAuth |-> FALSE, gProject |-> FALSE, gJob |-> FALSE]

\* a finished request whose context has been released
GoneReq == [IdleReq EXCEPT !.pc = "gone"]

\* the body of a JSON response; by names the layer that wrote it
Response(status, stat, message, by) ==
  [status |-> status, stat |-> stat, message |-> message, by |-> by,
   hint |-> FALSE, assignedProject |-> undefined, project |-> undefined,
   job |-> undefined, availableJobs |-> {}]

\* utils/responseHelpers.js
sendError(q, statusCode, message, by) ==
  [q EXCEPT !.res = Append(@, Response(statusCode, "error", message, by)),
            !.events = Append(@, "respond")]

sendForbidden(q, message, by) == sendError(q, 403, message, by)
sendBadRequest(q, message, by) == sendError(q, 400, message, by)
sendNotFound(q, message, by) == sendError(q, 404, message, by)
sendInternalError(q, message, by) == sendError(q, 500, message, by)

sendSuccess(q, message, by) ==
  [q EXCEPT !.res = Append(@, Response(200, "ok", message, by)),
            !.events = Append(@, "respond")]

sendAccepted(q, message, project, job, by) ==
  [q EXCEPT !.res = Append(@, [Response(200, "accepted", message, by)
                                 EXCEPT !.project = project, !.job = job]),
            !.events = Append(@, "respond")]

\* the last response written, with extra fields set
WithExtra(q, extra) ==
  [q EXCEPT !.res[Len(q.res)] =
     [f \in DOMAIN @ |-> IF f \in DOMAIN extra THEN extra[f] ELSE @[f]]]

----------------------------------------------------------------------------
(* middleware/auth.js                                                      *)

\* the token expression of authenticateWebhook
authToken(q) ==
  Or(Or(Or(q.queryToken, q.bodyToken), q.xToken),
     IF q.authorization = undefined THEN undefined
     ELSE Replace(q.authorization, BearerPrefix, <<>>))

\* authenticateWebhook without the return before res.status(403): the rejection
\* is written and next() is called all the same
authenticateWebhook_NoReturn(q) ==
  LET token == authToken(q)
  IN IF Falsy(token)
     THEN [next |-> FALSE,
           q |-> sendError(q, 401, <<"Unauthorized: No token provided">>, "auth")]
     ELSE IF ~verifyToken(token, authorizedKeys)
     THEN [next |-> TRUE,
           q |-> [sendError(q, 403, <<"Forbidden: Invalid or unauthorized token">>, "auth")
                    EXCEPT !.tokenChecked = token]]
     ELSE [next |-> TRUE, q |-> [q EXCEPT !.tokenChecked = token]]

\* a middleware yields the updated context and whether it called next()
authenticateWebhook(q) ==
  LET token == authToken(q)
  IN IF Falsy(token)
     THEN [next |-> FALSE,
           q |-> WithExtra(sendError(q, 401, <<"Unauthorized: No token provided">>, "auth"),
                          [hint |-> TRUE])]
     ELSE IF ~verifyToken(token, authorizedKeys)
     THEN [next |-> FALSE,
           q |-> [sendError(q, 403, <<"Forbidden: Invalid or unauthorized token">>, "auth")
                    EXCEPT !.tokenChecked = token]]
     ELSE [next |-> TRUE, q |-> [q EXCEPT !.tokenChecked = token]]

----------------------------------------------------------------------------
(* middleware/projectAuth.js                                               *)

\* validateProjectAccess without the assignment checks: any requested project
\* is attached
validateProjectAccess_NoScopeCheck(q) ==
  LET requestedProject == getBodyOrQuery(q.bodyProject, q.queryProject)
  IN IF Falsy(requestedProject)
     THEN [next |-> FALSE,
           q |-> sendBadRequest(q, <<"No project specified">>, "project")]
     ELSE [next |-> TRUE, q |-> [q EXCEPT !.project = requestedProject]]

\* validateProjectAccess testing the project parameter before the assignment
validateProjectAccess_ParamFirst(q) ==
  LET clientKey == q.clientKey
      requestedProject == getBodyOrQuery(q.bodyProject, q.queryProject)
      assignedProject == getClientProject(clientKey)
  IN IF Falsy(requestedProject)
     THEN [next |-> FALSE,
           q |-> WithExtra(sendBadRequest(q, <<"No project specified">>, "project"),
                          [hint |-> TRUE])]
     ELSE IF Falsy(assignedProject)
     THEN [next |-> FALSE,
           q |-> WithExtra(sendForbidden(q, <<"No project assigned to this client">>, "project"),
                          [hint |-> TRUE])]
     ELSE IF requestedProject # assignedProject
     THEN [next |-> FALSE,
           q |-> WithExtra(sendForbidden(q, <<"Not authorized for project: ", requestedProject>>,
                                        "project"),
                          [assignedProject |-> assignedProject])]
     ELSE [next |-> TRUE, q |-> [q EXCEPT !.project = assignedProject]]

validateProjectAccess(q) ==
  LET clientKey == q.clientKey
      requestedProject == getBodyOrQuery(q.bodyProject, q.queryProject)
      assignedProject == getClientProject(clientKey)
  IN IF Falsy(assignedProject)
     THEN [next |-> FALSE,
           q |-> WithExtra(sendForbidden(q, <<"No project assigned to this client">>, "project"),
                          [hint |-> TRUE])]
     ELSE IF Falsy(requestedProject)
     THEN [next |-> FALSE,
           q |-> WithExtra(sendBadRequest(q, <<"No project specified">>, "project"),
                          [hint |-> TRUE])]
     ELSE IF requestedProject # assignedProject
     THEN [next |-> FALSE,
           q |-> WithExtra(sendForbidden(q, <<"Not authorized for project: ", requestedProject>>,
                                        "project"),
                          [assignedProject |-> assignedProject])]
     ELSE [next |-> TRUE, q |-> [q EXCEPT !.project = assignedProject]]

\* validateJobAccess looking the job up in every project
validateJobAccess_AnyProject(q) ==
  LET project == q.project
      jobName == getBodyOrQuery(q.bodyJob, q.queryJob)
  IN IF Falsy(jobName)
     THEN [next |-> FALSE,
           q |-> WithExtra(sendBadRequest(q, <<"No job specified">>, "job"),
                          [hint |-> TRUE])]
     ELSE IF ~(jobExists(ProjA, jobName) \/ jobExists(ProjB, jobName))
     THEN [next |-> FALSE,
           q |-> WithExtra(sendNotFound(q, <<"Job not found: ", jobName>>, "job"),
                          [project |-> project,
                            availableJobs |-> getProjectJobs(project)])]
     ELSE [next |-> TRUE, q |-> [q EXCEPT !.jobName = jobName]]

validateJobAccess(q) ==
  LET project == q.project
      jobName == getBodyOrQuery(q.bodyJob, q.queryJob)
  IN IF Falsy(jobName)
     THEN [next |-> FALSE,
           q |-> WithExtra(sendBadRequest(q, <<"No job specified">>, "job"),
                          [hint |-> TRUE])]
     ELSE IF ~jobExists(project, jobName)
     THEN [next |-> FALSE,
           q |-> WithExtra(sendNotFound(q, <<"Job not found: ", jobName>>, "job"),
                          [project |-> project,
                            availableJobs |-> getProjectJobs(project)])]
     ELSE [next |-> TRUE, q |-> [q EXCEPT !.jobName = jobName]]

----------------------------------------------------------------------------
(* utils/jobExecutor.js: the job runner                                    *)

Log(q, entry) == [q EXCEPT !.log = Append(@, entry)]

\* process.env of the server
ParentEnv == [PATH |-> <<"/", "b">>, NODE_ENV |-> <<"s">>]

\* new Date().toISOString(): the reading of the server's clock
Clock == <<"T">>

\* the own properties of a JobExecutionError (AppError: message, name,
\* statusCode, extra; JobExecutionError: exitCode, stderr)
ErrorFields == {"message", "name", "statusCode", "extra", "exitCode", "stderr"}

\* the properties of the result record built by the close handler
ResultFields ==
  {"projectName", "jobName", "exitCode", "success", "duration",
   "stdout", "stderr", "startTime", "endTime"}

\* new JobExecutionError(message, jobName, exitCode = null, stderr = null)
JobExecutionError(message, jobName, exitCode, stderr) ==
  [NoValue EXCEPT !.kind = "JobExecutionError", !.message = message,
                  !.fields = ErrorFields, !.jobName = jobName,
                  !.exitCode = exitCode, !.stderr = stderr]

\* the promise settles once: a later resolve or reject is ignored
Settle(job, outcome, value) ==
  IF job.promise # "pending" THEN job
  ELSE [job EXCEPT !.promise = outcome, !.value = value]

\* executeJob with the caller's env spread after the fixed variables
executeJob_EnvLast(q, projectName, jobName, options) ==
  IF ~jobScriptExists(projectName, jobName)
  THEN [q EXCEPT !.job = [NoJob EXCEPT
                            !.promise = "rejected",
                            !.value = JobExecutionError("Job not found", jobName,
                                                        NoExitCode, null)],
                 !.events = Append(@, "execute")]
  ELSE LET jobPath == sanitizePath(JOBS_DIR, <<projectName, jobName \o ShExt>>)
           jobDir == PathDirname(jobPath)
           env == Merge(Merge(ParentEnv,
                              [PROJECT_NAME |-> projectName, JOB_NAME |-> jobName,
                               JOB_START_TIME |-> Clock]),
                        IF options.hasEnv THEN options.env ELSE EmptyEnv)
       IN [q EXCEPT !.job = [NoJob EXCEPT !.state = "running",
                                          !.projectName = projectName,
                                          !.jobName = jobName,
                                          !.script = jobPath,
                                          !.cwd = jobDir, !.promise = "pending",
                                          !.env = env, !.onOutput = options.onOutput,
                                          !.onComplete = options.onComplete],
                    !.events = Append(@, "execute")]

\* executeJob up to the return of its promise: rejected at once when the
\* script is not found, otherwise the child is spawned and the promise pends
executeJob(q, projectName, jobName, options) ==
  IF ~jobScriptExists(projectName, jobName)
  THEN [q EXCEPT !.job = [NoJob EXCEPT
                            !.promise = "rejected",
                            !.value = JobExecutionError("Job not found", jobName,
                                                        NoExitCode, null)],
                 !.events = Append(@, "execute")]
  ELSE LET jobPath == sanitizePath(JOBS_DIR, <<projectName, jobName \o ShExt>>)
           jobDir == PathDirname(jobPath)
           env == Merge(Merge(ParentEnv,
                              IF options.hasEnv THEN options.env ELSE EmptyEnv),
                        [PROJECT_NAME |-> projectName, JOB_NAME |-> jobName,
                         JOB_START_TIME |-> Clock])
       IN [q EXCEPT !.job = [NoJob EXCEPT !.state = "running",
                                          !.projectName = projectName,
                                          !.jobName = jobName,
                                          !.script = jobPath,
                                          !.cwd = jobDir, !.promise = "pending",
                                          !.env = env, !.onOutput = options.onOutput,
                                          !.onComplete = options.onComplete],
                    !.events = Append(@, "execute")]

\* jobProcess.stdout.on('data') / jobProcess.stderr.on('data'): the chunk is
\* accumulated and handed to options.onOutput, which the server logs
onData(q, stream, output) ==
  LET q1 == [q EXCEPT !.job = IF stream = "stdout"
                              THEN [@ EXCEPT !.stdout = @ \o output]
                              ELSE [@ EXCEPT !.stderr = @ \o output]]
  IN IF q.job.onOutput THEN Log(q1, "Job output") ELSE q1

\* if (options.onComplete) options.onComplete(report): the calls are recorded
Complete(job, success, exitCode) ==
  IF job.onComplete
  THEN [job EXCEPT !.completions = Append(@, [success |-> success,
                                               exitCode |-> exitCode])]
  ELSE job

\* the result record the close handler builds
Result(q, exitCode) ==
  [NoValue EXCEPT !.kind = "result", !.fields = ResultFields,
                  !.projectName = q.job.projectName, !.jobName = q.job.jobName,
                  !.exitCode = exitCode, !.success = (exitCode = 0),
                  !.stdout = q.job.stdout, !.stderr = q.job.stderr]

\* Object.assign(error, source): the properties of source are set on error
Assign(error, source) ==
  [f \in DOMAIN error |->
     IF f = "fields" THEN error.fields \cup source.fields
     ELSE IF f \in {"kind", "message"} THEN error[f]
     ELSE IF f \in source.fields THEN source[f]
     ELSE error[f]]

\* the close handler without Object.assign(error, result)
onClose_NoAssign(q, exitCode) ==
  LET result == Result(q, exitCode)
      closed == [q.job EXCEPT !.state = "closed", !.exitCode = exitCode]
  IN [q EXCEPT !.job =
        IF exitCode = 0 THEN Settle(closed, "resolved", result)
        ELSE Settle(closed, "rejected",
                    JobExecutionError("Job failed with exit code", q.job.jobName,
                                      exitCode, q.job.stderr))]

\* jobProcess.on('close'): reports to onComplete and settles the promise by
\* the exit code
onClose(q, exitCode) ==
  LET result == Result(q, exitCode)
      closed == Complete([q.job EXCEPT !.state = "closed", !.exitCode = exitCode],
                         result.success, exitCode)
  IN [q EXCEPT !.job =
        IF exitCode = 0 THEN Settle(closed, "resolved", result)
        ELSE Settle(closed, "rejected",
                    Assign(JobExecutionError("Job failed with exit code", q.job.jobName,
                                             exitCode, q.job.stderr),
                           result))]

\* the error handler building its error the way the close handler does
onError_AsExit(q, message) ==
  [q EXCEPT !.job =
     Settle([@ EXCEPT !.errored = TRUE], "rejected",
            Assign(JobExecutionError("Job failed with exit code", q.job.jobName,
                                     SpawnErrno, q.job.stderr),
                   Result(q, SpawnErrno)))]

\* an error handler that also kills the child
onError_Kills(q, message) ==
  [q EXCEPT !.job =
     Settle([@ EXCEPT !.errored = TRUE, !.state = "closed"], "rejected",
            Assign(JobExecutionError("Job execution error", q.job.jobName,
                                     NoExitCode, null),
                   [NoValue EXCEPT
                      !.fields = {"projectName", "jobName", "success", "duration",
                                  "originalError"},
                      !.projectName = q.job.projectName, !.jobName = q.job.jobName,
                      !.success = FALSE, !.originalError = message]))]

\* jobProcess.on('error'): reports to onComplete and rejects the promise
onError(q, message) ==
  [q EXCEPT !.job =
     Settle(Complete([@ EXCEPT !.errored = TRUE], FALSE, NoExitCode), "rejected",
            Assign(JobExecutionError("Job execution error", q.job.jobName,
                                     NoExitCode, null),
                   [NoValue EXCEPT
                      !.fields = {"projectName", "jobName", "success", "duration",
                                  "originalError"},
                      !.projectName = q.job.projectName, !.jobName = q.job.jobName,
                      !.success = FALSE, !.originalError = message]))]

----------------------------------------------------------------------------
(* server.js (the middleware-chain version): the route handlers            *)

\* the catch block of the handler answering the failure to the client as well
afterAwait_Responds(q) ==
  IF q.job.promise = "resolved" THEN Log(q, "Job completed successfully")
  ELSE sendInternalError(Log(q, "Job execution failed"), <<"Job execution failed">>, "handler")

\* the handler of POST /webhook after its await: one log entry, no response
afterAwait(q) ==
  IF q.job.promise = "resolved" THEN Log(q, "Job completed successfully")
  ELSE Log(q, "Job execution failed")

\* SECURITY.CLIENT_KEY_DISPLAY_LENGTH
CLIENT_KEY_DISPLAY_LENGTH == 50

\* utils/security.js
sanitizeClientKey(clientKey) ==
  IF Falsy(clientKey) THEN <<>>
  ELSE IF Len(clientKey) <= CLIENT_KEY_DISPLAY_LENGTH THEN clientKey
  ELSE SubSeq(clientKey, 1, CLIENT_KEY_DISPLAY_LENGTH) \o <<".", ".", ".">>

\* the handler answering without executing when another request already runs
\* the same job of the same project
webhookHandler_Dedup(q) ==
  LET clientKey == q.clientKey
      project == q.project
      jobName == q.jobName
      q0 == Log(q, "Webhook received - executing job")
      q1 == Log(q0, "Starting job execution")
      q2 == sendAccepted(q1, <<"Job started">>, project, jobName, "handler")
      options == [hasEnv |-> TRUE,
                  env |-> Merge([WEBHOOK_CLIENT |-> sanitizeClientKey(clientKey),
                                 WEBHOOK_TIMESTAMP |-> Clock],
                                q.bodyEnv),
                  onOutput |-> TRUE, onComplete |-> FALSE]
      q3 == executeJob([q2 EXCEPT !.options = options], project, jobName, options)
  IN IF \E k \in DOMAIN reqs : /\ reqs[k].job.state = "running"
                               /\ reqs[k].job.projectName = project
                               /\ reqs[k].job.jobName = jobName
     THEN [next |-> FALSE, q |-> q2]
     ELSE [next |-> FALSE,
           q |-> IF q3.job.promise = "rejected" THEN afterAwait(q3) ELSE q3]

\* the handler of POST /webhook up to its await; an exception raised inside
\* its try block before the response is caught by its catch block, which logs
\* and writes no response
webhookHandler(q) ==
  LET clientKey == q.clientKey
      project == q.project
      jobName == q.jobName
      q0 == Log(q, "Webhook received - executing job")
      q1 == Log(q0, "Starting job execution")
      q2 == sendAccepted(q1, <<"Job started">>, project, jobName, "handler")
      options == [hasEnv |-> TRUE,
                  env |-> Merge([WEBHOOK_CLIENT |-> sanitizeClientKey(clientKey),
                                 WEBHOOK_TIMESTAMP |-> Clock],
                                q.bodyEnv),
                  onOutput |-> TRUE, onComplete |-> FALSE]
      q3 == executeJob([q2 EXCEPT !.options = options], project, jobName, options)
  IN IF q.fault = "try" THEN [next |-> FALSE, q |-> Log(q0, "Job execution failed")]
     ELSE [next |-> FALSE,
           q |-> IF q3.job.promise = "rejected" THEN afterAwait(q3) ELSE q3]

\* the error-handling middleware registered after the routes
errorHandler(q) ==
  sendInternalError(Log(q, "Error occurred"), <<"Internal server error">>, "error")

\* the layer in which a fault is raised
FaultLayer(fault) == IF fault \in {"pre", "try"} THEN "handler" ELSE fault

\* a layer that raises an exception. A middleware throws synchronously and
\* express passes the error to the error-handling middleware. The async
\* handler throwing before its try block rejects the promise it returns:
\* express 5 forwards the rejection to the error-handling middleware, express 4
\* leaves it unhandled and nothing is written
Thrown(q, layer, forwarded) ==
  [next |-> FALSE,
   q |-> IF layer # "handler" \/ forwarded THEN errorHandler(q) ELSE q]

\* the handler of POST /admin/reload-keys; reloadAuthorizedKeys catches its own errors
reloadKeysHandler(q) ==
  [next |-> FALSE, q |-> sendSuccess(q, <<"Authorized keys reloaded successfully">>, "reload")]

\* the layers of a route, in the order app.post registers them
Chain(route) ==
  IF route = "webhook" THEN <<"auth", "project", "job", "handler">>
  ELSE <<"auth", "reload">>

\* the layer express calls when layer calls next()
NextLayer(route, layer) ==
  LET chain == Chain(route)
      i == CHOOSE k \in DOMAIN chain : chain[k] = layer
  IN IF i < Len(chain) THEN chain[i + 1] ELSE "done"

RunLayer(q, layer) ==
  CASE layer = "auth" -> authenticateWebhook(q)
    [] layer = "project" -> validateProjectAccess(q)
    [] layer = "job" -> validateJobAccess(q)
    [] layer = "handler" -> webhookHandler(q)
    [] layer = "reload" -> reloadKeysHandler(q)

----------------------------------------------------------------------------
(* What a request is entitled to, computed apart from the gates            *)

\* the identity a request presents: the attached key, else the token by the
\* documented priority
Caller(q) == IF q.clientKey # undefined THEN q.clientKey ELSE getToken(q)

RequestedProject(q) == getBodyOrQuery(q.bodyProject, q.queryProject)
RequestedJob(q) == getBodyOrQuery(q.bodyJob, q.queryJob)

Entitled(q, layer) ==
  CASE layer = "auth" -> [q EXCEPT !.gAuth = verifyToken(Caller(q), authorizedKeys)]
    [] layer = "project" ->
         [q EXCEPT !.gProject = Truthy(getClientProject(Caller(q)))
                                /\ getClientProject(Caller(q)) = RequestedProject(q)]
    [] layer = "job" -> [q EXCEPT !.gJob = jobExists(RequestedProject(q), RequestedJob(q))]
    [] OTHER -> q

----------------------------------------------------------------------------
(* Inputs                                                                  *)

KeyA == <<"a">>
KeyB == <<"b">>
KeyX == <<"x">>
KeyAPadded == <<" ", "a">>

\* "a\nb": both clients authorized
KeysText1 == <<"a", "\n", "b">>
\* "#a\n b \n": a commented out, b padded
KeysText2 == <<"#", "a", "\n", " ", "b", " ", "\n">>

KeysFiles == {KeysText1, KeysText2}

\* config/client_projects.json as loaded at startup
InitialClients ==
  [k \in {KeyA, KeyB} |->
     [project |-> IF k = KeyA THEN ProjA ELSE ProjB, description |-> <<>>]]

BasicA == <<"B", "a", "s", "i", "c", " ", "a">>

BodyTokens == {undefined, KeyA, KeyX}
QueryTokens == {undefined, KeyA, KeyX}
XTokens == {undefined, KeyB}
Authorizations == {undefined, BearerPrefix \o KeyA, BasicA}
BodyProjects == {undefined, ProjA, ProjB}
BodyJobs == {undefined, JobDeploy, JobNone}
NoCall == [op |-> "none", base |-> <<>>, segments |-> <<>>, result |-> null,
           jobs |-> {}, touched |-> {}, tick |-> 0, lines |-> <<>>,
           keys |-> <<>>, token |-> undefined, ok |-> FALSE,
           clientKey |-> undefined, project |-> undefined, threw |-> FALSE]

----------------------------------------------------------------------------
(* The server                                                              *)

Init ==
  /\ keysFile \in KeysFiles
  /\ authorizedKeys = loadAuthorizedKeys(keysFile)
  /\ clientProjects = InitialClients
  /\ clientsFile = InitialClients
  /\ files \in {BaseFiles, BaseFiles \cup {VolatileFile}}
  /\ reqs = [r \in ReqIds |-> IdleReq]
  /\ running = 0
  /\ call = NoCall

\* the contexts of finished requests are released when the next one arrives
Release(rs) ==
  [r \in ReqIds |->
     IF rs[r].pc = "done" /\ rs[r].job.state # "running" THEN GoneReq ELSE rs[r]]

Arrives(r) ==
  /\ running = 0
  /\ reqs[r].pc = "idle"
  /\ \A k \in ReqIds : k < r => reqs[k].pc # "idle"

\* a request reaches the first layer of its route
Receive(r) ==
  /\ Arrives(r)
  /\ r <= MaxServed
  /\ \E route \in {"webhook", "reload"},
        bt \in BodyTokens, qt \in QueryTokens, xt \in XTokens, az \in Authorizations,
        bp \in BodyProjects, bj \in BodyJobs :
       /\ route = "reload" => bp = undefined /\ bj = undefined
       /\ reqs' = [Release(reqs) EXCEPT ![r] =
                     [IdleReq EXCEPT !.pc = "auth", !.route = route,
                                     !.bodyToken = bt, !.queryToken = qt,
                                     !.xToken = xt, !.authorization = az,
                                     !.bodyProject = bp, !.bodyJob = bj]]
  /\ running' = r
  /\ UNCHANGED <<authorizedKeys, keysFile, clientProjects, clientsFile, files, call>>

\* express runs the next layer of the chain of the request being handled
Dispatch(r) ==
  /\ running = r
  /\ \E forwarded \in IF reqs[r].fault = "pre" /\ reqs[r].pc = "handler"
                       THEN BOOLEAN ELSE {TRUE} :
     LET q == reqs[r]
         layer == q.pc
         out == IF FaultLayer(q.fault) = layer /\ q.fault # "try"
                THEN Thrown(Entitled(q, layer), layer, forwarded)
                ELSE RunLayer(Entitled(q, layer), layer)
         pc2 == IF out.next THEN NextLayer(q.route, layer)
                ELSE IF out.q.job.promise = "pending" THEN "awaiting"
                ELSE "done"
     IN /\ reqs' = [reqs EXCEPT ![r] =
                      [out.q EXCEPT !.pc = pc2,
                                    !.trace = Append(@, layer),
                                    !.passed = IF out.next THEN @ \cup {layer} ELSE @]]
        /\ authorizedKeys' = IF layer = "reload" THEN reloadAuthorizedKeys
                             ELSE authorizedKeys
        /\ running' = IF pc2 \in {"done", "awaiting"} THEN 0 ELSE r
  /\ UNCHANGED <<keysFile, clientProjects, clientsFile, files, call>>

\* an administrator rewrites the authorized-keys file
WriteKeysFile ==
  /\ \E text \in KeysFiles : text # keysFile /\ keysFile' = text
  /\ UNCHANGED <<authorizedKeys, clientProjects, clientsFile, files, reqs, running, call>>

\* a script is deployed to or withdrawn from the jobs tree
ToggleScript ==
  /\ files' = IF VolatileFile \in files THEN files \ {VolatileFile}
              ELSE files \cup {VolatileFile}
  /\ UNCHANGED <<authorizedKeys, keysFile, clientProjects, clientsFile, reqs, running, call>>

Next ==
  \/ \E r \in ReqIds : Receive(r)
  \/ \E r \in ReqIds : Dispatch(r)
  \/ WriteKeysFile

Spec == Init /\ [][Next]_vars

----------------------------------------------------------------------------
(* The server, and the chain from validateProjectAccess on entered the way *)
(* its unit tests enter it: with req.clientKey already set on the request  *)
(* to a key that authentication is taken to have verified                  *)

QueryProjects == {undefined, ProjA}
QueryJobs == {undefined, JobDeploy}
ClientKeys == {undefined, KeyA, KeyB, KeyX}
ExitCodes == {0, 1, NoExitCode}
\* the message of the error node emits when the spawn fails
SpawnErrors == {<<"E">>}

InitGates == Init /\ keysFile = KeysText1

Enter(r) ==
  /\ Arrives(r)
  /\ \E ck \in ClientKeys, bp \in BodyProjects, qp \in QueryProjects,
        bj \in BodyJobs, qj \in QueryJobs :
       reqs' = [Release(reqs) EXCEPT ![r] =
                  [IdleReq EXCEPT !.pc = "project", !.route = "webhook",
                                  !.clientKey = ck,
                                  !.bodyProject = bp, !.queryProject = qp,
                                  !.bodyJob = bj, !.queryJob = qj,
                                  !.trace = <<"auth">>, !.passed = {"auth"},
                                  !.gAuth = verifyToken(ck, authorizedKeys)]]
  /\ running' = r
  /\ UNCHANGED <<authorizedKeys, keysFile, clientProjects, clientsFile, files, call>>

\* the child process closes; the handler resumes if it still awaits
ChildClose(r) ==
  /\ running = 0
  /\ reqs[r].job.state = "running"
  /\ \E exitCode \in IF reqs[r].job.errored THEN {SpawnErrno} ELSE ExitCodes :
       LET q == onClose(reqs[r], exitCode)
       IN reqs' = [reqs EXCEPT ![r] =
                     IF reqs[r].pc = "awaiting"
                     THEN [afterAwait(q) EXCEPT !.pc = "done"]
                     ELSE q]
  /\ UNCHANGED <<authorizedKeys, keysFile, clientProjects, clientsFile, files, running, call>>

\* the child process reports an error; it may still close afterwards
ChildError(r) ==
  /\ running = 0
  /\ reqs[r].job.state = "running"
  /\ ~reqs[r].job.errored
  /\ \E message \in SpawnErrors :
       LET q == onError(reqs[r], message)
       IN reqs' = [reqs EXCEPT ![r] =
                     IF reqs[r].pc = "awaiting"
                     THEN [afterAwait(q) EXCEPT !.pc = "done"]
                     ELSE q]
  /\ UNCHANGED <<authorizedKeys, keysFile, clientProjects, clientsFile, files, running, call>>

NextGates ==
  \/ \E r \in ReqIds : Receive(r)
  \/ \E r \in ReqIds : Enter(r)
  \/ \E r \in ReqIds : Dispatch(r)
  \/ \E r \in ReqIds : ChildClose(r)
  \/ \E r \in ReqIds : ChildError(r)
  \/ ToggleScript

SpecGates == InitGates /\ [][NextGates]_vars

----------------------------------------------------------------------------
(* The two gates of projectAuth called one at a time, the way their unit   *)
(* tests call them                                                         *)

ProjAPadded == <<"p", " ">>

\* the values a parameter takes in the body or in the query
ProjectParams == {undefined, null, <<>>, ProjA, ProjB, ProjAPadded}
JobParams == {undefined, null, <<>>, JobDeploy, JobRollback, JobNone}
\* the values of a header naming a project or a job
ProjectHeaders == {undefined, ProjA}
JobHeaders == {undefined, JobDeploy}

\* validateProjectAccess(req, res, next) is called
CallProjectGate(r) ==
  /\ Arrives(r)
  /\ r <= MaxServed
  /\ \E ck \in ClientKeys \cup {KeyAPadded}, bp \in ProjectParams,
        qp \in ProjectParams, xp \in ProjectHeaders :
       LET q == [IdleReq EXCEPT !.route = "gate", !.clientKey = ck,
                                !.bodyProject = bp, !.queryProject = qp,
                                !.xProject = xp]
           out == validateProjectAccess(q)
       IN reqs' = [Release(reqs) EXCEPT ![r] =
                     [out.q EXCEPT !.pc = "done", !.trace = <<"project">>,
                                   !.passed = IF out.next THEN {"project"} ELSE {}]]
  /\ UNCHANGED <<authorizedKeys, keysFile, clientProjects, clientsFile, files, running, call>>

\* validateJobAccess(req, res, next) is called with req.project attached
CallJobGate(r) ==
  /\ Arrives(r)
  /\ r <= MaxServed
  /\ \E project \in {ProjA, ProjB}, bj \in JobParams, qj \in JobParams,
        xj \in JobHeaders :
       LET q == [IdleReq EXCEPT !.route = "gate", !.project = project,
                                !.bodyJob = bj, !.queryJob = qj, !.xJob = xj]
           out == validateJobAccess(q)
       IN reqs' = [Release(reqs) EXCEPT ![r] =
                     [out.q EXCEPT !.pc = "done", !.trace = <<"job">>,
                                   !.passed = IF out.next THEN {"job"} ELSE {}]]
  /\ UNCHANGED <<authorizedKeys, keysFile, clientProjects, clientsFile, files, running, call>>

NextGateCalls ==
  \/ \E r \in ReqIds : CallProjectGate(r)
  \/ \E r \in ReqIds : CallJobGate(r)
  \/ ToggleScript

SpecGateCalls == InitGates /\ [][NextGateCalls]_vars

----------------------------------------------------------------------------
\* Direct calls of the credential store: loadAuthorizedKeys and verifyToken of
\* utils/keyManager.js on their own, and reloadAuthorizedKeys of
\* middleware/auth.js against a keys file that changes, disappears or becomes
\* unreadable between reloads.

MaxLines == 2

\* lines of a keys file: a key, a padded key, a comment, a blank line, a
\* longer key, an indented comment, a key with a carriage return
KeyLines == {<<"a">>, <<" ", "b", " ">>, <<"#", "a">>, <<>>, <<"a", "b">>,
             <<" ", "#", "c">>, <<"a", "\r">>}

LineLists == UNION {[1..n -> KeyLines] : n \in 0..MaxLines}

TokenInputs == {undefined, null, <<>>, <<" ">>, KeyA, KeyAPadded, KeyB, KeyX,
                <<"a", "b">>, <<"b", "a">>, <<"#", "a">>}

CallLoadAuthorizedKeys ==
  /\ \E ls \in LineLists :
       call' = [NoCall EXCEPT !.op = "loadAuthorizedKeys",
                              !.lines = ls,
                              !.keys = loadAuthorizedKeys(Join(ls, <<"\n">>))]
  /\ UNCHANGED <<authorizedKeys, keysFile, clientProjects, clientsFile, files, reqs, running>>

\* a token is verified against the set the preceding call loaded
CallVerifyToken ==
  /\ call.op = "loadAuthorizedKeys"
  /\ \E token \in TokenInputs :
       call' = [NoCall EXCEPT !.op = "verifyToken",
                              !.token = token,
                              !.keys = call.keys,
                              !.ok = verifyToken(token, call.keys)]
  /\ UNCHANGED <<authorizedKeys, keysFile, clientProjects, clientsFile, files, reqs, running>>

\* the module-level authorizedKeys of middleware/auth.js is what
\* authenticateWebhook hands to verifyToken
CallVerifyLoaded ==
  /\ \E token \in TokenInputs :
       call' = [NoCall EXCEPT !.op = "verifyLoaded",
                              !.tick = 1 - call.tick,
                              !.token = token,
                              !.ok = verifyToken(token, authorizedKeys)]
  /\ UNCHANGED <<authorizedKeys, keysFile, clientProjects, clientsFile, files, reqs, running>>

CallReloadAuthorizedKeys ==
  /\ authorizedKeys' = reloadAuthorizedKeys
  /\ call' = [NoCall EXCEPT !.op = "reloadAuthorizedKeys",
                            !.tick = 1 - call.tick]
  /\ UNCHANGED <<keysFile, clientProjects, clientsFile, files, reqs, running>>

\* the operator removes the keys file or makes it unreadable
BreakKeysFile ==
  /\ \E f \in {FileMissing, FileUnreadable} : f # keysFile /\ keysFile' = f
  /\ UNCHANGED <<authorizedKeys, clientProjects, clientsFile, files, reqs, running, call>>

NextKeys ==
  \/ CallLoadAuthorizedKeys
  \/ CallVerifyToken

SpecKeys == InitGates /\ [][NextKeys]_vars

NextReload ==
  \/ CallReloadAuthorizedKeys
  \/ CallVerifyLoaded
  \/ WriteKeysFile
  \/ BreakKeysFile

SpecReload == InitGates /\ [][NextReload]_vars

----------------------------------------------------------------------------
\* Direct calls of the client-to-project store of utils/projectManager.js, as
\* scripts/manageClientProjects.js makes them; fs.writeFileSync may fail, and
\* a failed write leaves the document on disk as it was.

AssignKeys == {KeyA, KeyAPadded, KeyB, ValueOf}
AssignProjects == {ProjA, ProjB}
Descriptions == {<<"d">>}

CallAssignClientToProject ==
  /\ \E c \in AssignKeys, p \in AssignProjects, d \in Descriptions,
        written \in BOOLEAN :
       LET clients == assignClientToProject(c, p, d)
       IN /\ clientProjects' = clients
          /\ clientsFile' = IF written THEN clients ELSE clientsFile
          /\ call' = [NoCall EXCEPT !.op = "assignClientToProject",
                                    !.tick = 1 - call.tick,
                                    !.clientKey = c, !.project = p,
                                    !.threw = ~written]
  /\ UNCHANGED <<authorizedKeys, keysFile, files, reqs, running>>

CallRemoveClientAssignment ==
  /\ \E c \in AssignKeys, written \in BOOLEAN :
       LET out == removeClientAssignment(c)
       IN /\ clientProjects' = out.clients
          /\ clientsFile' = IF out.removed /\ written THEN out.clients
                            ELSE clientsFile
          /\ call' = [NoCall EXCEPT !.op = "removeClientAssignment",
                                    !.tick = 1 - call.tick,
                                    !.clientKey = c,
                                    !.ok = out.removed /\ written,
                                    !.threw = out.removed /\ ~written]
  /\ UNCHANGED <<authorizedKeys, keysFile, files, reqs, running>>

CallLoadClientProjects ==
  /\ clientProjects' = loadClientProjects
  /\ call' = [NoCall EXCEPT !.op = "loadClientProjects", !.tick = 1 - call.tick]
  /\ UNCHANGED <<authorizedKeys, keysFile, clientsFile, files, reqs, running>>

NextClients ==
  \/ CallAssignClientToProject
  \/ CallRemoveClientAssignment
  \/ CallLoadClientProjects

SpecClients == InitGates /\ [][NextClients]_vars

----------------------------------------------------------------------------
\* Requests during whose handling an unexpected exception is raised: in a
\* middleware, in the handler of POST /webhook before its try block, or inside
\* the try block before the response is written.

FaultPoints == {"none", "auth", "project", "job", "pre", "try"}

EnterFaulty(r) ==
  /\ Arrives(r)
  /\ \E fault \in FaultPoints, ck \in {KeyA, KeyB}, bj \in {JobDeploy, JobNone} :
       reqs' = [Release(reqs) EXCEPT ![r] =
                  IF fault = "auth"
                  THEN [IdleReq EXCEPT !.pc = "auth", !.route = "webhook",
                                       !.bodyToken = ck, !.bodyProject = ProjA,
                                       !.bodyJob = bj, !.fault = fault]
                  ELSE [IdleReq EXCEPT !.pc = "project", !.route = "webhook",
                                       !.clientKey = ck, !.bodyProject = ProjA,
                                       !.bodyJob = bj, !.fault = fault,
                                       !.trace = <<"auth">>, !.passed = {"auth"},
                                       !.gAuth = verifyToken(ck, authorizedKeys)]]
  /\ running' = r
  /\ UNCHANGED <<authorizedKeys, keysFile, clientProjects, clientsFile, files, call>>

NextFaults ==
  \/ \E r \in ReqIds : EnterFaulty(r)
  \/ \E r \in ReqIds : Dispatch(r)
  \/ \E r \in ReqIds : ChildClose(r)

SpecFaults == InitGates /\ [][NextFaults]_vars

\* the server while the keys file is rewritten, removed or made unreadable
NextAdmin ==
  \/ \E r \in ReqIds : Receive(r)
  \/ \E r \in ReqIds : Dispatch(r)
  \/ WriteKeysFile
  \/ BreakKeysFile

SpecAdmin == InitGates /\ [][NextAdmin]_vars

----------------------------------------------------------------------------
(* The runner called as an exported function, and the events of its child  *)

\* the most chunks of output a child writes
MaxChunks == 2

\* the project whose script is deployed and withdrawn while the server runs
RunnerProjects == {ProjA}
RunnerJobs == {JobDeploy}

\* options.env of a call
OptionEnvs ==
  { [X |-> <<"1">>],
    [PATH |-> <<"/", "c">>],
    [PROJECT_NAME |-> <<"z">>, JOB_NAME |-> <<"z">>, JOB_START_TIME |-> <<"c">>,
     X |-> <<"1">>] }

OptionsInputs ==
  {NoOptions, [NoOptions EXCEPT !.onComplete = TRUE]}
    \cup {[NoOptions EXCEPT !.hasEnv = TRUE, !.env = e] : e \in OptionEnvs}

\* executeJob(projectName, jobName, options) is called
Execute(r) ==
  /\ Arrives(r)
  /\ r <= MaxServed
  /\ \E projectName \in RunnerProjects, jobName \in RunnerJobs,
        options \in OptionsInputs :
       reqs' = [Release(reqs) EXCEPT ![r] =
                  [executeJob([IdleReq EXCEPT !.route = "direct",
                                              !.project = projectName,
                                              !.jobName = jobName,
                                              !.options = options],
                              projectName, jobName, options)
                     EXCEPT !.pc = "done"]]
  /\ UNCHANGED <<authorizedKeys, keysFile, clientProjects, clientsFile, files, running, call>>

\* the child writes a chunk to stdout or stderr
ChildData(r) ==
  /\ running = 0
  /\ reqs[r].job.state = "running"
  /\ Len(reqs[r].job.stdout) + Len(reqs[r].job.stderr) < MaxChunks
  /\ \E stream \in {"stdout", "stderr"} :
       reqs' = [reqs EXCEPT ![r] = onData(reqs[r], stream, <<"o">>)]
  /\ UNCHANGED <<authorizedKeys, keysFile, clientProjects, clientsFile, files, running, call>>

NextRunner ==
  \/ \E r \in ReqIds : Execute(r)
  \/ \E r \in ReqIds : ChildData(r)
  \/ \E r \in ReqIds : ChildClose(r)
  \/ \E r \in ReqIds : ChildError(r)
  \/ ToggleScript

SpecRunner == InitGates /\ [][NextRunner]_vars

----------------------------------------------------------------------------
\* Requests of an assigned caller for an existing job whose body carries an
\* env object.

BodyEnvs ==
  { EmptyEnv,
    [X |-> <<"1">>],
    [WEBHOOK_CLIENT |-> <<"z">>, WEBHOOK_TIMESTAMP |-> <<"0">>] }

Submit(r) ==
  /\ Arrives(r)
  /\ \E ck \in {KeyA, KeyB}, env \in BodyEnvs :
       reqs' = [Release(reqs) EXCEPT ![r] =
                  [IdleReq EXCEPT !.pc = "project", !.route = "webhook",
                                  !.clientKey = ck,
                                  !.bodyProject = getClientProject(ck),
                                  !.bodyJob = JobDeploy, !.bodyEnv = env,
                                  !.trace = <<"auth">>, !.passed = {"auth"},
                                  !.gAuth = verifyToken(ck, authorizedKeys)]]
  /\ running' = r
  /\ UNCHANGED <<authorizedKeys, keysFile, clientProjects, clientsFile, files, call>>

NextEnv ==
  \/ \E r \in ReqIds : Submit(r)
  \/ \E r \in ReqIds : Dispatch(r)
  \/ \E r \in ReqIds : ChildClose(r)

SpecEnv == InitGates /\ [][NextEnv]_vars

----------------------------------------------------------------------------
\* The server while jobs run and an administrator reloads the keys, removes
\* the assignment of a caller whose job is running, or assigns that caller to
\* another project.

RemoveCaller(r) ==
  /\ reqs[r].job.state = "running"
  /\ removeClientAssignment(reqs[r].clientKey).removed
  /\ clientProjects' = removeClientAssignment(reqs[r].clientKey).clients
  /\ clientsFile' = clientProjects'
  /\ UNCHANGED <<authorizedKeys, keysFile, files, reqs, running, call>>

ReassignCaller(r) ==
  /\ reqs[r].job.state = "running"
  /\ \E p \in {ProjA, ProjB} \ {getClientProject(reqs[r].clientKey)} :
       clientProjects' = assignClientToProject(reqs[r].clientKey, p, <<>>)
  /\ clientsFile' = clientProjects'
  /\ UNCHANGED <<authorizedKeys, keysFile, files, reqs, running, call>>

NextRunning ==
  \/ \E r \in ReqIds : EnterFaulty(r)
  \/ \E r \in ReqIds : Dispatch(r)
  \/ \E r \in ReqIds : ChildClose(r)
  \/ \E r \in ReqIds : ChildError(r)
  \/ \E r \in ReqIds : RemoveCaller(r)
  \/ \E r \in ReqIds : ReassignCaller(r)
  \/ WriteKeysFile
  \/ CallReloadAuthorizedKeys

SpecRunning == InitGates /\ [][NextRunning]_vars

----------------------------------------------------------------------------
(* Direct calls of the path utilities and of the runner                    *)

\* the longest list of untrusted segments passed to sanitizePath
MaxSegments == 2

TrailingSlashJobsDir == JOBS_DIR \o Sep
PathBases == {JOBS_DIR, TrailingSlashJobsDir, <<"/", "w">>}

PathSegments ==
  { ProjA, ProjB, JobDeploy \o ShExt, DotDot, Dot,
    <<".", ".", "/", "j", "2">>,
    <<".", ".", "/", "j", "2", "/", "p">>,
    <<".", ".", "/", "j">>,
    <<"/", "e">> }

SegmentLists == UNION {[1..n -> PathSegments] : n \in 1..MaxSegments}

NameInputs ==
  { undefined, <<>>, ProjA, ProjB, JobDeploy, JobNone, DotDot,
    <<".", ".", "/", "j", "2", "/", "p">>, <<".", "h">>, <<"p", "/", "d">>,
    <<"/", "e">>, <<".", "/", "d">>, <<"p", ".", "d">>, <<"p", "\\", "d">> }

CallSanitizePath ==
  /\ call.op = "none"
  /\ \E base \in PathBases, segments \in SegmentLists :
       call' = [NoCall EXCEPT !.op = "sanitizePath", !.base = base,
                              !.segments = segments,
                              !.result = sanitizePath(base, segments)]
  /\ UNCHANGED <<authorizedKeys, keysFile, clientProjects, clientsFile, files, reqs, running>>

CallJobExists ==
  /\ call.op = "none"
  /\ \E projectName \in NameInputs, jobName \in NameInputs :
       call' = [NoCall EXCEPT
                  !.op = "jobExists", !.base = JOBS_DIR,
                  !.segments = <<projectName, jobName>>,
                  !.result = IF jobExists(projectName, jobName)
                             THEN sanitizePath(JOBS_DIR, <<projectName, jobName \o ShExt>>)
                             ELSE null,
                  !.touched = jobExistsTouched(projectName, jobName)]
  /\ UNCHANGED <<authorizedKeys, keysFile, clientProjects, clientsFile, files, reqs, running>>

\* executeJob called as an exported function; the result is the script it spawns
CallExecuteJob ==
  /\ call.op = "none"
  /\ \E projectName \in NameInputs, jobName \in NameInputs :
       call' = [NoCall EXCEPT
                  !.op = "executeJob", !.base = JOBS_DIR,
                  !.segments = <<projectName, jobName>>,
                  !.result = LET q == executeJob(IdleReq, projectName, jobName, NoOptions)
                             IN IF q.job.state = "running" THEN q.job.script ELSE null]
  /\ UNCHANGED <<authorizedKeys, keysFile, clientProjects, clientsFile, files, reqs, running>>

\* getProjectJobs called as an exported function
CallGetProjectJobs ==
  /\ call.op = "none"
  /\ \E projectName \in NameInputs :
       call' = [NoCall EXCEPT
                  !.op = "getProjectJobs", !.base = JOBS_DIR,
                  !.segments = <<projectName>>,
                  !.jobs = getProjectJobs(projectName),
                  !.touched = getProjectJobsTouched(projectName)]
  /\ UNCHANGED <<authorizedKeys, keysFile, clientProjects, clientsFile, files, reqs, running>>

NextPath ==
  \/ CallSanitizePath
  \/ CallJobExists
  \/ CallGetProjectJobs
  \/ CallExecuteJob
  \/ ToggleScript

SpecPath == InitGates /\ [][NextPath]_vars

\* The job catalog over changing directory contents: files an operator may
\* put into a project directory, with names that are not job names
DirectoryFiles ==
  { ScriptAt(JOBS_DIR, ProjA, <<"d", ".", "s", "h">>),              \* p/d.sh.sh
    ScriptAt(JOBS_DIR, ProjA, <<"v", ".", "1">>),                   \* p/v.1.sh
    JOBS_DIR \o Sep \o ProjA \o Sep \o <<"n", ".", "t", "x", "t">>,  \* p/n.txt
    ScriptAt(JOBS_DIR, ProjB, JobNone) }                            \* q/n.sh

ToggleFile ==
  /\ call.op = "none"
  /\ \E f \in DirectoryFiles :
       files' = IF f \in files THEN files \ {f} ELSE files \cup {f}
  /\ UNCHANGED <<authorizedKeys, keysFile, clientProjects, clientsFile, reqs, running, call>>

NextCatalog ==
  \/ ToggleFile
  \/ CallGetProjectJobs
  \/ CallJobExists

SpecCatalog == InitGates /\ [][NextCatalog]_vars

----------------------------------------------------------------------------
(* Properties                                                              *)

Webhook(r) == reqs[r].route = "webhook"

\* the request the code authenticated, and the token it verified for it
Authenticated(r) == "auth" \in reqs[r].passed
VerifiedCaller(r) == reqs[r].tokenChecked

\* executeJob has been invoked for the request
Executed(r) == reqs[r].job.promise # "none"

Accepted(project, job) ==
  [Response(200, "accepted", <<"Job started">>, "handler")
     EXCEPT !.project = project, !.job = job]

Position(seq, x) == CHOOSE i \in DOMAIN seq : seq[i] = x

C2_CrossProjectIsolation ==
  \A r \in ReqIds :
    LET q == reqs[r]
        A == getClientProject(VerifiedCaller(r))
        B == RequestedProject(q)
    IN (Webhook(r) /\ q.pc = "done" /\ Authenticated(r)
          /\ Truthy(A) /\ Truthy(B) /\ B # A)
       => /\ Len(q.res) = 1
          /\ q.res[1].status = 403
          /\ q.res[1].message = <<"Not authorized for project: ", B>>
          /\ q.res[1].assignedProject = A
          /\ ~Executed(r)

\* C3: a request whose token is authorized, whose caller is assigned to the
\* requested project P and whose job J exists in P is answered 200 'accepted',
\* 'Job started', project P, job J.
C3_ValidRequestAccepted ==
  \A r \in ReqIds :
    LET q == reqs[r]
        P == RequestedProject(q)
        J == RequestedJob(q)
    IN (Webhook(r) /\ q.pc \in {"done", "awaiting"} /\ Authenticated(r)
          /\ Truthy(P) /\ getClientProject(VerifiedCaller(r)) = P
          /\ jobExists(P, J))
       => q.res = <<Accepted(P, J)>>

\* C4: the layers of POST /webhook are evaluated in the order authenticate,
\* project, job; a layer is evaluated only after every earlier one called next
\* without responding; the rejection is written by the last layer evaluated,
\* which does not call next, and nothing is evaluated after it.
C4_GatesInOrder ==
  \A r \in ReqIds :
    LET q == reqs[r]
        chain == Chain("webhook")
    IN Webhook(r)
       => /\ Len(q.trace) <= Len(chain)
          /\ q.trace = SubSeq(chain, 1, Len(q.trace))
          /\ \A i \in 1..(Len(q.trace) - 1) : q.trace[i] \in q.passed
          /\ q.pc \in {"auth", "project", "job", "handler"} => q.res = <<>>
          /\ (q.res # <<>> /\ q.res[1].stat = "error")
               => /\ Len(q.res) = 1
                  /\ q.pc = "done"
                  /\ q.res[1].by = q.trace[Len(q.trace)]
                  /\ q.res[1].by \notin q.passed

\* C4 witness: a request that came in through authenticateWebhook and was
\* rejected by the second gate, with the third gate never evaluated.
C4_Witness ==
  \E r \in ReqIds :
    /\ Webhook(r) /\ reqs[r].pc = "done"
    /\ reqs[r].tokenChecked # undefined
    /\ reqs[r].trace = <<"auth", "project">>
    /\ reqs[r].passed = {"auth"}
    /\ Len(reqs[r].res) = 1 /\ reqs[r].res[1].by = "project"
    /\ reqs[r].res[1].status = 403

\* C5: authentication answers 401 'Unauthorized: No token provided' when no token
\* is found in body, query, X-Webhook-Token or a Bearer Authorization header, 403
\* 'Forbidden: Invalid or unauthorized token' when the token found is not in the
\* authorized set after trimming, and passes the request otherwise.
C5_AuthClassification ==
  \A r \in ReqIds :
    LET q == reqs[r]
        token == getToken(q)
    IN q.trace # <<>> /\ q.trace[1] = "auth" /\ q.clientKey = undefined
       => IF Falsy(token)
          THEN /\ q.res # <<>> /\ q.res[1].by = "auth" /\ q.res[1].status = 401
               /\ q.res[1].message = <<"Unauthorized: No token provided">>
          ELSE IF ~q.gAuth
          THEN /\ q.res # <<>> /\ q.res[1].by = "auth" /\ q.res[1].status = 403
               /\ q.res[1].message = <<"Forbidden: Invalid or unauthorized token">>
          ELSE Authenticated(r)

\* C6: when authenticateWebhook calls next, req.clientKey is the raw token it
\* verified.
C6_ClientKeyAttached ==
  \A r \in ReqIds :
    Authenticated(r) /\ reqs[r].tokenChecked # undefined
      => reqs[r].clientKey = reqs[r].tokenChecked

\* C7: the token verified is the one of highest priority among body.token,
\* query.token, X-Webhook-Token and the Bearer value.
C7_TokenPriority ==
  \A r \in ReqIds :
    LET q == reqs[r]
    IN (q.trace # <<>> /\ q.tokenChecked # undefined /\ Truthy(getToken(q)))
       => q.tokenChecked = getToken(q)

\* C8: a request whose only credential is an Authorization header without the
\* 'Bearer ' prefix carries no token and is answered 401.
C8_MalformedAuthorizationIsNoToken ==
  \A r \in ReqIds :
    LET q == reqs[r]
    IN (q.trace # <<>> /\ q.trace[1] = "auth" /\ q.clientKey = undefined
          /\ q.bodyToken = undefined /\ q.queryToken = undefined
          /\ q.xToken = undefined
          /\ q.authorization # undefined
          /\ ~StartsWith(q.authorization, BearerPrefix))
       => /\ Falsy(authToken(q))
          /\ q.res # <<>> /\ q.res[1].status = 401

Inside(resolvedPath, resolvedRoot) ==
  resolvedPath = resolvedRoot \/ StartsWith(resolvedPath, resolvedRoot \o Sep)

\* C10: sanitizePath returns a path exactly when the resolved joined path is the
\* resolved root or lies under the root followed by a separator, and the script
\* jobExists accepts or executeJob spawns lies inside the jobs root.
C10_SanitizePathContained ==
  /\ call.op = "sanitizePath"
       => ((call.result # null)
             <=> Inside(PathResolve(PathJoin(<<call.base>> \o call.segments)),
                        PathResolve(call.base)))
  /\ (call.op \in {"jobExists", "executeJob"} /\ call.result # null)
       => Inside(call.result, PathResolve(JOBS_DIR))

\* a name the catalog must refuse: it contains '..', starts with '/' or '.', or
\* fails ^[A-Za-z0-9_-]+$
UnsafeName(n) ==
  \/ n = undefined
  \/ Includes(n, DotDot)
  \/ StartsWith(n, Sep)
  \/ StartsWith(n, Dot)
  \/ ~MatchesValidPattern(n)

\* C11: for a project or job name that contains '..', starts with '/' or '.', or
\* fails the safe-name pattern, jobExists is false and getProjectJobs is empty,
\* and neither hands any path to the file system.
C11_UnsafeNamesRefused ==
  /\ (call.op = "jobExists"
        /\ (UnsafeName(call.segments[1]) \/ UnsafeName(call.segments[2])))
       => call.result = null /\ call.touched = {}
  /\ (call.op = "getProjectJobs" /\ UnsafeName(call.segments[1]))
       => call.jobs = {} /\ call.touched = {}

\* C11 witness: jobExists was asked for a traversal name whose script is on disk
\* beside the jobs root, and refused it without touching the file system.
C11_Witness ==
  /\ call.op = "jobExists"
  /\ call.segments = <<<<".", ".", "/", "j", "2", "/", "p">>, JobDeploy>>
  /\ ScriptAt(SIBLING_DIR, ProjA, JobDeploy) \in files
  /\ call.result = null /\ call.touched = {}

\* C12: whenever jobExists(project, job) is false, executeJob rejects and spawns
\* no subprocess.
C12_ExecuteJobRequiresJobExists ==
  (call.op = "executeJob" /\ ~jobExists(call.segments[1], call.segments[2]))
    => call.result = null

\* a direct call of executeJob whose child was spawned
Spawned(r) == reqs[r].route = "direct" /\ reqs[r].job.state # "none"

C14_SpawnErrorIsDistinct ==
  \A r \in ReqIds :
    LET job == reqs[r].job
        v == job.value
    IN /\ (Spawned(r) /\ job.errored)
          => /\ job.promise = "rejected"
             /\ v.kind = "JobExecutionError"
             /\ v.originalError \in SpawnErrors
             /\ {"originalError", "projectName", "jobName", "success", "duration"}
                  \subseteq v.fields
             /\ v.projectName = reqs[r].project /\ v.jobName = reqs[r].jobName
             /\ v.success = FALSE
             /\ v.exitCode = NoExitCode
             /\ "stdout" \notin v.fields /\ v.stdout = undefined
             /\ v.stderr = null
       /\ (Spawned(r) /\ job.state = "closed" /\ ~job.errored /\ job.exitCode # 0)
          => "originalError" \notin v.fields /\ "stdout" \in v.fields

\* C14 witness: the child had written output, the spawn error came, and the
\* process closed afterwards; the rejection is still the spawn error.
C14_Witness ==
  \E r \in ReqIds :
    /\ Spawned(r) /\ reqs[r].job.errored /\ reqs[r].job.state = "closed"
    /\ reqs[r].job.stderr # <<>>
    /\ reqs[r].job.value.originalError = <<"E">>

\* C15: in the environment of the spawned job PROJECT_NAME, JOB_NAME and
\* JOB_START_TIME are the executed project, the executed job and the runner's
\* clock reading whatever options.env holds; every other variable of options.env
\* has the caller's value, and the remaining ones are the parent's.
C15_FixedVariablesNotOverridable ==
  \A r \in ReqIds :
    LET q == reqs[r]
        env == q.job.env
        supplied == IF q.options.hasEnv THEN q.options.env ELSE EmptyEnv
        Fixed == {"PROJECT_NAME", "JOB_NAME", "JOB_START_TIME"}
    IN Spawned(r)
       => /\ Fixed \subseteq DOMAIN env
          /\ env["PROJECT_NAME"] = q.project
          /\ env["JOB_NAME"] = q.jobName
          /\ env["JOB_START_TIME"] = Clock
          /\ \A k \in DOMAIN supplied \ Fixed : env[k] = supplied[k]
          /\ \A k \in DOMAIN ParentEnv \ (DOMAIN supplied \cup Fixed) :
               env[k] = ParentEnv[k]
          /\ DOMAIN env = DOMAIN ParentEnv \cup DOMAIN supplied \cup Fixed

\* C15 witness: a job spawned by a call whose options.env defines the three
\* names with other values.
C15_Witness ==
  \E r \in ReqIds :
    /\ Spawned(r)
    /\ reqs[r].options.hasEnv
    /\ "PROJECT_NAME" \in DOMAIN reqs[r].options.env
    /\ reqs[r].options.env["PROJECT_NAME"] # reqs[r].project
    /\ reqs[r].options.env["JOB_START_TIME"] # Clock
    /\ reqs[r].job.env["PROJECT_NAME"] = ProjA

\* a parameter value that counts as given
Present(v) == v # undefined /\ v # null /\ v # <<>>

\* the value of a parameter: the body's when given, else the query's
FirstPresent(bodyValue, queryValue) ==
  IF Present(bodyValue) THEN bodyValue
  ELSE IF Present(queryValue) THEN queryValue
  ELSE undefined

\* the project the persisted assignments give a caller
AssignedTo(clientKey) ==
  IF Present(clientKey) /\ Trim(clientKey) \in DOMAIN clientProjects
  THEN clientProjects[Trim(clientKey)].project
  ELSE null

\* a call of validateProjectAccess / of validateJobAccess that has returned
ProjectGateCall(r) == reqs[r].route = "gate" /\ reqs[r].trace = <<"project">>
JobGateCall(r) == reqs[r].route = "gate" /\ reqs[r].trace = <<"job">>

\* C16: validateProjectAccess answers 403 'No project assigned to this client'
\* when the caller has no assignment, whatever the project parameter; otherwise
\* 400 'No project specified' when the parameter is missing; otherwise 403 on a
\* mismatch; only an exact match attaches req.project and calls next. A header
\* naming a project changes nothing.
C16_ProjectGateOrder ==
  \A r \in ReqIds :
    LET q == reqs[r]
        A == AssignedTo(q.clientKey)
        P == FirstPresent(q.bodyProject, q.queryProject)
    IN ProjectGateCall(r)
       => IF A = null
          THEN /\ Len(q.res) = 1 /\ q.res[1].status = 403
               /\ q.res[1].message = <<"No project assigned to this client">>
               /\ q.res[1].hint
               /\ q.passed = {} /\ q.project = undefined
          ELSE IF P = undefined
          THEN /\ Len(q.res) = 1 /\ q.res[1].status = 400
               /\ q.res[1].message = <<"No project specified">>
               /\ q.res[1].hint
               /\ q.passed = {} /\ q.project = undefined
          ELSE IF P # A
          THEN /\ Len(q.res) = 1 /\ q.res[1].status = 403
               /\ q.res[1].message = <<"Not authorized for project: ", P>>
               /\ q.res[1].assignedProject = A
               /\ q.passed = {} /\ q.project = undefined
          ELSE q.res = <<>> /\ q.passed = {"project"} /\ q.project = A

\* C16 witness: a caller without assignment that also sent no project parameter
\* is told 403, not 400.
C16_Witness ==
  \E r \in ReqIds :
    /\ ProjectGateCall(r)
    /\ reqs[r].clientKey = KeyX
    /\ reqs[r].bodyProject = undefined /\ reqs[r].queryProject = undefined
    /\ reqs[r].xProject = ProjA
    /\ reqs[r].res # <<>> /\ reqs[r].res[1].status = 403

\* the jobs a project has on disk
JobsOnDisk(project) ==
  {j \in {JobDeploy, JobRollback, JobNone} : ScriptAt(JOBS_DIR, project, j) \in files}

\* C17: validateJobAccess answers 400 'No job specified' when the job parameter
\* is missing, 404 'Job not found: <job>' with the attached project and its job
\* listing at the moment of the call when the job has no script in that project,
\* and otherwise attaches req.jobName and calls next.
C17_JobGate ==
  [][\A r \in ReqIds :
       LET q == reqs'[r]
           J == FirstPresent(q.bodyJob, q.queryJob)
       IN (reqs[r].pc = "idle" /\ q.route = "gate" /\ q.trace = <<"job">>)
          => IF J = undefined
             THEN /\ Len(q.res) = 1 /\ q.res[1].status = 400
                  /\ q.res[1].message = <<"No job specified">>
                  /\ q.passed = {} /\ q.jobName = undefined
             ELSE IF J \notin JobsOnDisk(q.project)
             THEN /\ Len(q.res) = 1 /\ q.res[1].status = 404
                  /\ q.res[1].message = <<"Job not found: ", J>>
                  /\ q.res[1].project = q.project
                  /\ q.res[1].availableJobs = JobsOnDisk(q.project)
                  /\ q.passed = {} /\ q.jobName = undefined
             ELSE q.res = <<>> /\ q.passed = {"job"} /\ q.jobName = J]_vars

\* C17 witness: a job that exists only in the other project is answered 404 with
\* the listing of the attached project.
C17_Witness ==
  \E r \in ReqIds :
    /\ JobGateCall(r)
    /\ reqs[r].project = ProjA /\ reqs[r].bodyJob = JobRollback
    /\ ScriptAt(JOBS_DIR, ProjB, JobRollback) \in files
    /\ reqs[r].res # <<>> /\ reqs[r].res[1].status = 404
    /\ reqs[r].res[1].availableJobs = {JobDeploy}

\* C18: for project and job the body value is used whenever it is given, an
\* absent, null or empty body value falls through to the query value, and the
\* parameter is missing only when neither is given.
C18_BodyDominatesQuery ==
  \A r \in ReqIds :
    LET q == reqs[r]
        P == FirstPresent(q.bodyProject, q.queryProject)
        J == FirstPresent(q.bodyJob, q.queryJob)
    IN /\ (ProjectGateCall(r) /\ AssignedTo(q.clientKey) # null)
          => /\ (q.res # <<>> /\ q.res[1].message = <<"No project specified">>)
                  <=> (~Present(q.bodyProject) /\ ~Present(q.queryProject))
             /\ q.passed = {"project"} => q.project = P
             /\ (q.res # <<>> /\ q.res[1].status = 403)
                  => q.res[1].message = <<"Not authorized for project: ", P>>
             /\ Present(q.bodyProject) => P = q.bodyProject
       /\ JobGateCall(r)
          => /\ (q.res # <<>> /\ q.res[1].status = 400)
                  <=> (~Present(q.bodyJob) /\ ~Present(q.queryJob))
             /\ q.passed = {"job"} => q.jobName = J
             /\ (q.res # <<>> /\ q.res[1].status = 404)
                  => q.res[1].message = <<"Job not found: ", J>>
             /\ Present(q.bodyJob) => J = q.bodyJob

\* C18 witness: an empty project in the body and the assigned project in the
\* query pass the gate.
C18_Witness ==
  \E r \in ReqIds :
    /\ ProjectGateCall(r)
    /\ reqs[r].clientKey = KeyA
    /\ reqs[r].bodyProject = <<>> /\ reqs[r].queryProject = ProjA
    /\ reqs[r].passed = {"project"} /\ reqs[r].project = ProjA

----------------------------------------------------------------------------
\* Credential store

\* a line of the keys file that is an entry: not blank and, once trimmed, not
\* a comment
KeptLine(l) == Trim(l) # <<>> /\ Trim(l)[1] # "#"

\* the entries of a keys file given as its list of lines
EntriesOf(lines) ==
  LET kept == SelectSeq(lines, KeptLine)
  IN [i \in DOMAIN kept |-> Trim(kept[i])]

\* C19: loadAuthorizedKeys returns exactly the trimmed, non-empty lines of the
\* file that do not begin with '#', in file order; verifyToken is true exactly
\* when the trimmed token equals some entry of the set, so a token that is
\* only a prefix, suffix or substring of an entry, and an empty, blank or
\* absent token, is never verified.
C19_KeysExact ==
  /\ call.op = "loadAuthorizedKeys" => call.keys = EntriesOf(call.lines)
  /\ call.op = "verifyToken" =>
       /\ call.ok <=> /\ call.token \notin {undefined, null}
                      /\ \E k \in Range(call.keys) : Trim(k) = Trim(call.token)
       /\ (call.token \in {undefined, null} \/ Trim(call.token) = <<>>)
            => ~call.ok
       /\ (\A k \in Range(call.keys) : Trim(k) # Trim(call.token)) => ~call.ok

\* C19 witness: token "a" is checked against a set whose only entry is "ab"
\* and is not verified.
C19_Witness ==
  /\ call.op = "verifyToken"
  /\ call.token = KeyA
  /\ call.keys = << <<"a", "b">> >>
  /\ ~call.ok

\* the step is a call of reloadAuthorizedKeys
ReloadStep == call'.op = "reloadAuthorizedKeys" /\ call'.tick # call.tick

\* the step is a verification against the in-memory set
VerifyLoadedStep == call'.op = "verifyLoaded" /\ call'.tick # call.tick

\* the entries a reload reads from each keys file; none when the file is
\* missing or its read fails
KeysOfFile(file) ==
  CASE file = KeysText1 -> <<KeyA, KeyB>>
    [] file = KeysText2 -> <<KeyB>>
    [] OTHER -> <<>>

\* C20: every reload replaces the in-memory set by exactly the entries of the
\* keys file as it is at that reload, or by the empty set when the file is
\* missing or its read fails; nothing else changes the set, so it is never a
\* mixture of old and new entries; and while the set is empty after a failed
\* reload every token is rejected.
C20_ReloadReplaces ==
  [][/\ ReloadStep => authorizedKeys' = KeysOfFile(keysFile)
     /\ authorizedKeys' # authorizedKeys => ReloadStep
     /\ (VerifyLoadedStep /\ authorizedKeys = <<>>) => ~call'.ok]_vars

\* C20 witness: a reload against an unreadable keys file has left the
\* in-memory set empty.
C20_Witness ==
  /\ call.op = "reloadAuthorizedKeys"
  /\ keysFile = FileUnreadable
  /\ authorizedKeys = <<>>

----------------------------------------------------------------------------
\* Administration

\* the step in which the handler of POST /admin/reload-keys runs for r
ReloadHandled(r) == reqs[r].pc = "reload" /\ reqs'[r].pc = "done"

\* C21: POST /admin/reload-keys from an authenticated caller is answered 200
\* when the keys file was reloaded and 500 'Failed to reload keys' when the
\* reload failed.
C21_ReloadKeysAnswer ==
  [][\A r \in ReqIds :
       ReloadHandled(r) =>
         LET res == reqs'[r].res
         IN /\ Len(res) = 1
            /\ IF loadAuthorizedKeysThrows(keysFile)
               THEN /\ res[1].status = 500
                    /\ res[1].message = <<"Failed to reload keys">>
               ELSE res[1].status = 200]_vars

----------------------------------------------------------------------------
\* Client-to-project store

\* the step is a call of assignClientToProject / removeClientAssignment that
\* returned
AssignReturned ==
  /\ call'.op = "assignClientToProject" /\ call'.tick # call.tick
  /\ ~call'.threw

RemoveReturned ==
  /\ call'.op = "removeClientAssignment" /\ call'.tick # call.tick
  /\ ~call'.threw

\* the step is a call of the store, returned or not
StoreStep ==
  /\ call'.tick # call.tick
  /\ call'.op \in {"assignClientToProject", "removeClientAssignment",
                   "loadClientProjects"}

\* C22: stored identities are trimmed, so a caller has at most one entry; an
\* assign that returns makes getClientProject give the new project for that
\* caller however it is padded, overwriting an earlier assignment, and a
\* remove makes it give null; the projects of all other callers are as before,
\* and nothing but the store's own operations changes the mapping.
C22_LastWriteWins ==
  [][/\ \A k \in DOMAIN clientProjects' : Trim(k) = k
     /\ AssignReturned =>
          \A k \in AssignKeys :
            getClientProject(k)' =
              IF Trim(k) = Trim(call'.clientKey) THEN call'.project
              ELSE getClientProject(k)
     /\ RemoveReturned =>
          \A k \in AssignKeys :
            getClientProject(k)' =
              IF Trim(k) = Trim(call'.clientKey) THEN null
              ELSE getClientProject(k)
     /\ ~StoreStep => clientProjects' = clientProjects]_vars

\* C23: a removeClientAssignment that returns gives true exactly when an
\* entry for the trimmed key existed; then exactly that entry is deleted and
\* the document on disk is rewritten to the new mapping; otherwise the mapping
\* and the document are unchanged.
C23_RemoveReturnsExisted ==
  [][RemoveReturned =>
       LET key == Trim(call'.clientKey)
           existed == key \in DOMAIN clientProjects
       IN /\ call'.ok <=> existed
          /\ existed =>
               /\ DOMAIN clientProjects' = DOMAIN clientProjects \ {key}
               /\ \A k \in DOMAIN clientProjects' :
                    clientProjects'[k] = clientProjects[k]
               /\ clientsFile' = clientProjects'
          /\ ~existed =>
               /\ clientProjects' = clientProjects
               /\ clientsFile' = clientsFile]_vars

\* C30: after every assign or remove, completed or failed in its write, the
\* in-memory mapping equals the document on disk.
C30_MemoryEqualsDocument ==
  call.op \in {"assignClientToProject", "removeClientAssignment"}
    => clientProjects = clientsFile

----------------------------------------------------------------------------
\* Unexpected exceptions

\* an exception was raised while r was handled
FaultRaised(r) ==
  /\ reqs[r].fault # "none"
  /\ FaultLayer(reqs[r].fault) \in Range(reqs[r].trace)

----------------------------------------------------------------------------
\* Overlapping requests and running jobs

\* the step in which the handler of POST /webhook runs for r
HandlerRuns(r) ==
  /\ reqs[r].pc = "handler" /\ reqs'[r].pc # "handler"
  /\ reqs[r].fault = "none"

----------------------------------------------------------------------------
\* Job catalog

\* C27: for every safe project name and every directory content, each name
\* getProjectJobs lists satisfies jobExists, and each name for which jobExists
\* is true is listed.
C27_ListingAgreesWithExistence ==
  /\ call.op = "getProjectJobs" =>
       LET project == call.segments[1]
       IN isValidProjectName(project) =>
            \A name \in call.jobs : jobExists(project, name)
  /\ call.op = "jobExists" =>
       LET project == call.segments[1]
           name == call.segments[2]
       IN (isValidProjectName(project) /\ call.result # null)
            => name \in getProjectJobs(project)

----------------------------------------------------------------------------
\* Completion reports

\* C28: whatever the order of the child's data, error and close events,
\* options.onComplete is called at most once, and the outcome the promise
\* settles with is the one reported in that call.
C28_OneCompletion ==
  \A r \in ReqIds :
    LET job == reqs[r].job
    IN /\ Len(job.completions) <= 1
       /\ Len(job.completions) = 1 =>
            /\ job.promise # "pending"
            /\ job.completions[1].success <=> job.promise = "resolved"

====
